---- MODULE Spec2Model ----
(***************************************************************************)
(* CI/CD pipeline health dashboard backend: ingestion entry points          *)
(* (main.py), the websocket ConnectionManager (ws.py), the alert trigger     *)
(* (alerting.py) and the request schema (schemas.py), as a state machine.    *)
(*                                                                           *)
(* The handlers are asyncio coroutines: a handler runs without interruption  *)
(* up to its next `await`, where any other handler may run.  One action is   *)
(* therefore one run of a coroutine from one suspension point to the next.   *)
(***************************************************************************)
EXTENDS Integers, Sequences, FiniteSets, TLC

\* ------------------------------------------------------------------ bounds
NumReq == 2        \* requests of the registry specifications
NumWS == 2         \* websocket connections of the registry specifications
MaxIngest == 1     \* requests of the ingestion specification (Spec)
MaxSubs == 1       \* websocket connections of the ingestion specification

Req == 1..NumReq
WS  == 1..NumWS

\* Optional[T]: None is <<>>, a present value v is <<v>>
None == <<>>
Some(v) == <<v>>

Range(s) == {s[i] : i \in 1..Len(s)}

\* ------------------------------------------------------------ schemas.py
Statuses == {"success", "failure", "cancelled", "in_progress"}

\* a required string key that the JSON body does not carry
Absent == "<absent>"

\* IngestBase: pipeline, repo, branch, status and started_at are required, and
\* status must match ^(success|failure|cancelled|in_progress)$
ValidateLax(p) ==
    /\ p.pipeline # Absent /\ p.repo # Absent /\ p.branch # Absent
    /\ p.status # Absent
    /\ p.started_at # None
Validate_case_blind(p) ==
    /\ p.pipeline # Absent /\ p.repo # Absent /\ p.branch # Absent
    /\ p.status \in Statuses \cup {"SUCCESS"}
    /\ p.started_at # None
Validate(p) ==
    /\ p.pipeline # Absent /\ p.repo # Absent /\ p.branch # Absent
    /\ p.status \in Statuses
    /\ p.started_at # None

\* BuildOut: the response model drops logs (and created_at)
BuildOut(b) ==
    [id |-> b.id, provider |-> b.provider, pipeline |-> b.pipeline,
     repo |-> b.repo, branch |-> b.branch, status |-> b.status,
     started_at |-> b.started_at, completed_at |-> b.completed_at,
     duration_seconds |-> b.duration_seconds, url |-> b.url]

\* ------------------------------------------------------------------ inputs
\* request bodies of POST /ingest/github and /ingest/jenkins
BasePayload ==
    [pipeline |-> "A", repo |-> "org/r", branch |-> "main", status |-> "success",
     started_at |-> Some(1), completed_at |-> None, duration_seconds |-> None,
     url |-> None, logs |-> None]

\* the one body the registry specifications post
BroadcastPayloads == {BasePayload}

\* the bodies the ingestion specification posts: every status (one of them a
\* raw provider code), a failure with a url, a body without started_at
IngestPayloads ==
    {[BasePayload EXCEPT !.status = s] : s \in Statuses \cup {"SUCCESS"}}
    \cup {[BasePayload EXCEPT !.status = "failure", !.url = Some("http://ci/1")]}
    \cup {[BasePayload EXCEPT !.started_at = None]}

\* request bodies of POST /webhook/github and /webhook/jenkins: the keys the
\* handlers read, None for an absent key.  created_at "garbage" is a string
\* fromisoformat rejects.
BaseWebhook ==
    [action |-> "completed", name |-> Some("A"), full_name |-> None,
     head_branch |-> None, conclusion |-> Some("success"), created_at |-> None,
     updated_at |-> None, html_url |-> None, run_number |-> None]

WebhookPayloads ==
    {BaseWebhook,
     [BaseWebhook EXCEPT !.conclusion = Some("cancelled")],
     [BaseWebhook EXCEPT !.created_at = Some("garbage")],
     [BaseWebhook EXCEPT !.action = "requested"],
     [BaseWebhook EXCEPT !.action = Absent, !.conclusion = Some("failure")]}

\* the values datetime.now(timezone.utc) takes in the model
Clock == {2}

\* the bodies the store specification posts: with and without completed_at
\* and duration_seconds (completed_at later and earlier than started_at, a
\* duration that disagrees with the timestamps, a duration of zero), without
\* each of pipeline, branch, status and started_at, and with a raw provider
\* status
StorePayloads ==
    {BasePayload,
     [BasePayload EXCEPT !.completed_at = Some(3)],
     [BasePayload EXCEPT !.started_at = Some(3), !.completed_at = Some(1)],
     [BasePayload EXCEPT !.completed_at = Some(3), !.duration_seconds = Some(30)],
     [BasePayload EXCEPT !.completed_at = Some(3), !.duration_seconds = Some(0)],
     [BasePayload EXCEPT !.pipeline = Absent],
     [BasePayload EXCEPT !.branch = Absent],
     [BasePayload EXCEPT !.status = Absent],
     [BasePayload EXCEPT !.status = "SUCCESS"],
     [BasePayload EXCEPT !.started_at = None]}

\* the webhook bodies of the store specification: every kind of conclusion
\* (success, another terminal code, a code GitHub knows and the mapping does
\* not, none), no workflow name, a branch, timestamps two minutes apart
StoreWebhooks ==
    {BaseWebhook,
     [BaseWebhook EXCEPT !.conclusion = Some("cancelled")],
     [BaseWebhook EXCEPT !.conclusion = Some("neutral")],
     [BaseWebhook EXCEPT !.conclusion = None, !.name = None],
     [BaseWebhook EXCEPT !.head_branch = Some("dev"), !.created_at = Some("t1"),
                         !.updated_at = Some("t3")],
     [BaseWebhook EXCEPT !.action = "requested"]}

\* workflow runs the GitHub API hands the collector (the keys of a workflow_run)
GithubRuns ==
    {[BaseWebhook EXCEPT !.created_at = Some("t1"), !.updated_at = Some("t3")],
     [BaseWebhook EXCEPT !.conclusion = Some("failure"), !.created_at = Some("t1"),
                         !.updated_at = Some("t1"), !.run_number = Some(7)],
     [BaseWebhook EXCEPT !.conclusion = Some("cancelled"), !.created_at = Some("t1")],
     [BaseWebhook EXCEPT !.conclusion = Some("neutral"), !.created_at = Some("t1")],
     [BaseWebhook EXCEPT !.conclusion = None, !.created_at = Some("t1")]}

\* builds the Jenkins API hands the collector: timestamp and duration are in
\* milliseconds (whole minutes and whole seconds here)
BaseBuild ==
    [result |-> Some("SUCCESS"), timestamp |-> 60000, duration |-> 120000,
     url |-> Some("http://jenkins/job/A/7/"), number |-> Some(7)]

JenkinsBuilds ==
    {BaseBuild,
     [BaseBuild EXCEPT !.result = Some("FAILURE")],
     [BaseBuild EXCEPT !.result = Some("ABORTED"), !.duration = 0],
     [BaseBuild EXCEPT !.result = Some("UNSTABLE")],
     [BaseBuild EXCEPT !.result = None]}

\* the bodies the metrics specification posts: rows of every status, started
\* at instants that fall inside and outside the windows asked for, with and
\* without a duration
MetricsPayloads ==
    {[BasePayload EXCEPT !.started_at = Some(1990)],
     [BasePayload EXCEPT !.status = "failure", !.started_at = Some(1940),
                         !.completed_at = Some(1942)],
     [BasePayload EXCEPT !.status = "cancelled", !.started_at = Some(520),
                         !.duration_seconds = Some(30)],
     [BasePayload EXCEPT !.status = "in_progress", !.started_at = Some(1)],
     [BasePayload EXCEPT !.status = "failure", !.started_at = Some(1990),
                         !.pipeline = "B"],
     [BasePayload EXCEPT !.status = "failure", !.started_at = Some(1990)]}

\* the window query parameter: None when the caller omits it
Windows ==
    {None, Some(<<"1", "h">>), Some(<<"2", "5", "h">>), Some(<<"1", "d">>),
     Some(<<"a", "b", "c">>), Some(<<"x", "h">>)}

\* the instant of the metrics queries
MetricsClock == {2000}

VARIABLES
    active,      \* ConnectionManager.active: list of registered websockets
    wsState,     \* websocket_endpoint's position, per connection
    health,      \* transport condition of a connection: what a send does
    inbox,       \* per connection, the messages its sends delivered
    pc,          \* ingestion handler's position, per request
    endpoint,    \* the entry point a request came in on
    input,       \* the request's payload
    build,       \* handler local b / build: id of the persisted record
    idx,         \* broadcast: position of the list iterator of `for ws in self.active`
    cur,         \* broadcast: the ws of the send the coroutine is suspended in
    pend,        \* broadcast: how that send ends ("ok", "fail", "hang")
    to_drop,     \* broadcast local to_drop
    store,       \* table builds, in insertion order
    alerts,      \* calls of alert_failure, in order
    result,      \* the response each request got
    oplog,       \* history: the steps of each request, in order
    snap,        \* history: self.active when the request's broadcast was invoked
    attempted,   \* history: the connections the broadcast called send_json on
    interfered,  \* history: the registry changed under the in-flight broadcast
    summary,     \* the response of the last GET /metrics/summary
    scan,        \* the order in which the database returns rows it need not sort
    listing,     \* the response of the last GET /builds or GET /builds/latest
    totals       \* the collectors' counters total_runs and total_builds

vars == <<active, wsState, health, inbox, pc, endpoint, input, build, idx, cur,
          pend, to_drop, store, alerts, result, oplog, snap, attempted, interfered,
          summary, scan, listing, totals>>

\* ------------------------------------------------------------------ ws.py
\* ConnectionManager.connect, after the accept: self.active.append(websocket)
connect_twice(act, w) == Append(Append(act, w), w)
connect_repeat(act, w) == <<w>> \o Append(act, w)
connect(act, w) == Append(act, w)

\* list.remove: delete the first occurrence
ListRemove_last(s, x) == SubSeq(s, 1, Len(s) - 1)
ListRemove(s, x) ==
    LET i == CHOOSE i \in 1..Len(s) : s[i] = x /\ \A j \in 1..(i - 1) : s[j] # x
    IN  SubSeq(s, 1, i - 1) \o SubSeq(s, i + 1, Len(s))

\* ConnectionManager.disconnect
disconnect_noop(act, w) == act
disconnect(act, w) == IF w \in Range(act) THEN ListRemove(act, w) ELSE act

\* broadcast's second loop: for ws in to_drop: self.disconnect(ws)
DropAll_everyone(act, drop) == IF drop = <<>> THEN act ELSE <<>>
RECURSIVE DropAll(_, _)
DropAll(act, drop) ==
    IF drop = <<>> THEN act ELSE DropAll(disconnect(act, Head(drop)), Tail(drop))

\* broadcast's except clause: a send that raised puts its ws on to_drop
AfterSend_forget(drop, w, outcome) == drop
AfterSend(drop, w, outcome) == IF outcome = "fail" THEN Append(drop, w) ELSE drop

\* what ws.send_json does on a connection in the given condition: "ok"
\* delivers and returns, "fail" raises, "hang" never completes (the await has
\* no timeout)
SendOutcome(h) ==
    CASE h = "ok" -> "ok"
      [] h = "broken" -> "fail"
      [] h = "stalled" -> "hang"

\* the notification main.py hands to manager.broadcast
Message_github(b) ==
    [event |-> "build_ingested",
     data |-> [pipeline |-> b.pipeline, repo |-> b.repo,
               status |-> b.status, provider |-> "github"]]
Message(b) ==
    [event |-> "build_ingested",
     data |-> [pipeline |-> b.pipeline, repo |-> b.repo,
               status |-> b.status, provider |-> b.provider]]

\* ---------------------------------------------------------------- main.py
\* Instants are whole minutes since an epoch and a timedelta is a number of
\* minutes; timedelta.total_seconds() gives seconds.
total_seconds(d) == 60 * d

\* _persist: the duration is the payload's, else completed_at - started_at
Duration_recomputed(p) ==
    IF p.completed_at # None
    THEN Some(total_seconds(p.completed_at[1] - p.started_at[1]))
    ELSE p.duration_seconds
Duration(p) ==
    IF p.duration_seconds # None THEN p.duration_seconds
    ELSE IF p.completed_at # None
         THEN Some(total_seconds(p.completed_at[1] - p.started_at[1]))
         ELSE None

\* _persist: the Build row that db.add/commit/refresh stores; the primary key
\* is the store's next integer
persist_as_github(st, provider, p) ==
    [id |-> Len(st) + 1, provider |-> "github", pipeline |-> p.pipeline,
     repo |-> p.repo, branch |-> p.branch, status |-> p.status,
     started_at |-> p.started_at, completed_at |-> p.completed_at,
     duration_seconds |-> Duration(p), url |-> p.url, logs |-> p.logs]
persist_reused_id(st, provider, p) ==
    [id |-> 1, provider |-> provider, pipeline |-> p.pipeline,
     repo |-> p.repo, branch |-> p.branch, status |-> p.status,
     started_at |-> p.started_at, completed_at |-> p.completed_at,
     duration_seconds |-> Duration(p), url |-> p.url, logs |-> p.logs]
persist(st, provider, p) ==
    [id |-> Len(st) + 1, provider |-> provider, pipeline |-> p.pipeline,
     repo |-> p.repo, branch |-> p.branch, status |-> p.status,
     started_at |-> p.started_at, completed_at |-> p.completed_at,
     duration_seconds |-> Duration(p), url |-> p.url, logs |-> p.logs]

\* `x or ""` on an Optional[str]
OrEmpty(o) == IF o = None THEN "" ELSE o[1]

\* if b.status == "failure": alert_failure(...)
ShouldAlert_nonsuccess(b) == b.status # "success"
ShouldAlert(b) == b.status = "failure"

\* ------------------------------------------------------------ alerting.py
\* alert_failure(b.pipeline, b.repo, b.url or "", b.logs or ""): the call as
\* the alert log records it.  _send_slack_alert and _send_email_alert catch
\* every exception and return a bool, which alert_failure only logs.
alert_failure(b, slack_sent, email_sent) ==
    [build |-> b.id, pipeline |-> b.pipeline, repo |-> b.repo,
     url |-> OrEmpty(b.url), logs |-> OrEmpty(b.logs),
     sent |-> (slack_sent \/ email_sent)]

\* datetime.isoformat / datetime.fromisoformat on the model's instants
IsoNames == <<"t0", "t1", "t2", "t3">>
isoformat(t) == IsoNames[t + 1]
IsIso(s) == s \in Range(IsoNames)
fromisoformat(s) == (CHOOSE i \in 1..Len(IsoNames) : IsoNames[i] = s) - 1

\* dict.get(key, default) on a key that is absent (None) or present
Get(o, default) == IF o = None THEN default ELSE o[1]

\* the f-string logs of the webhook handlers
RunLog(provider, wp) ==
    CASE provider = "jenkins" /\ wp.run_number = None -> "Jenkins build #unknown"
      [] provider = "jenkins" /\ wp.run_number # None -> "Jenkins build #7"
      [] provider = "github" /\ wp.run_number = None -> "GitHub Actions run #unknown"
      [] provider = "github" /\ wp.run_number # None -> "GitHub Actions run #7"

\* webhook_jenkins / webhook_github: does building the IngestRequest raise?
\* (fromisoformat on a string that is no ISO timestamp)
WebhookRaises(wp, now) ==
    \/ ~IsIso(Get(wp.created_at, isoformat(now)))
    \/ ~IsIso(Get(wp.updated_at, isoformat(now)))

\* webhook_jenkins / webhook_github: the status given to the IngestRequest
WebhookStatus_cancelled(conclusion) ==
    IF conclusion \in {Some("success"), Some("cancelled")} THEN conclusion[1] ELSE "failure"
WebhookStatus(conclusion) == IF conclusion = Some("success") THEN "success" ELSE "failure"

\* webhook_jenkins / webhook_github: the IngestRequest built from the payload
WebhookRequest(provider, wp, now) ==
    [pipeline |-> Get(wp.name, "unknown"),
     repo |-> Get(wp.full_name, "unknown"),
     branch |-> IF provider = "jenkins" THEN "main" ELSE Get(wp.head_branch, "main"),
     status |-> WebhookStatus(wp.conclusion),
     started_at |-> Some(fromisoformat(Get(wp.created_at, isoformat(now)))),
     completed_at |-> Some(fromisoformat(Get(wp.updated_at, isoformat(now)))),
     duration_seconds |-> None,
     url |-> wp.html_url,
     logs |-> Some(RunLog(provider, wp))]

\* ------------------------------------------------- main.py: metrics_summary
\* A query string is the tuple of its characters.
endswith(s, c) == Len(s) > 0 /\ s[Len(s)] = c

\* window[:-1]
DropLast(s) == SubSeq(s, 1, Len(s) - 1)

DigitChars == <<"0", "1", "2", "3", "4", "5", "6", "7", "8", "9">>
DigitVal(c) == (CHOOSE i \in 1..Len(DigitChars) : DigitChars[i] = c) - 1

\* int(s): an optional sign and at least one decimal digit, else ValueError
Unsigned(s) == IF Len(s) > 0 /\ s[1] \in {"+", "-"} THEN Tail(s) ELSE s
IntParses(s) ==
    /\ Len(Unsigned(s)) > 0
    /\ \A i \in 1..Len(Unsigned(s)) : Unsigned(s)[i] \in Range(DigitChars)

RECURSIVE DigitsVal(_)
DigitsVal(s) ==
    IF s = <<>> THEN 0 ELSE 10 * DigitsVal(DropLast(s)) + DigitVal(s[Len(s)])

IntOf(s) == IF Len(s) > 0 /\ s[1] = "-" THEN 0 - DigitsVal(Unsigned(s)) ELSE DigitsVal(Unsigned(s))

\* timedelta(hours=n), timedelta(days=n), in minutes
Hours(n) == 60 * n
Days(n) == 1440 * n

\* the query parameter's default: window: str = "7d"
DefaultWindow == <<"7", "d">>

\* the window parse: delta starts as timedelta(days=7) and is replaced when the
\* string ends with "h" or "d"; int() on the rest may raise ValueError, which
\* nothing catches
ParseWindow(window) ==
    IF endswith(window, "h")
    THEN IF IntParses(DropLast(window))
         THEN [raises |-> FALSE, delta |-> Hours(IntOf(DropLast(window)))]
         ELSE [raises |-> TRUE, delta |-> 0]
    ELSE IF endswith(window, "d")
    THEN IF IntParses(DropLast(window))
         THEN [raises |-> FALSE, delta |-> Days(IntOf(DropLast(window)))]
         ELSE [raises |-> TRUE, delta |-> 0]
    ELSE [raises |-> FALSE, delta |-> Days(7)]

\* a float quotient n / d, kept exact as the reduced fraction <<n', d'>>
Abs(n) == IF n < 0 THEN 0 - n ELSE n
RECURSIVE GCD(_, _)
GCD(a, b) == IF b = 0 THEN a ELSE GCD(b, a % b)
Quot(n, d) ==
    LET g == GCD(Abs(n), d) IN <<n \div g, d \div g>>

\* select(Build).where(Build.started_at >= since): the rows, in table order
Windowed_strict(st, since) == SelectSeq(st, LAMBDA b : b.started_at[1] > since)
Windowed(st, since) == SelectSeq(st, LAMBDA b : b.started_at[1] >= since)

\* the query has no ORDER BY: the rows come back in an order the database
\* chooses, any arrangement of the selected rows
Arrangements(rows) ==
    {[i \in DOMAIN rows |-> rows[f[i]]] :
        f \in {g \in [DOMAIN rows -> DOMAIN rows] :
                  \A i \in DOMAIN rows, j \in DOMAIN rows : i # j => g[i] # g[j]}}

\* the order of a select without ORDER BY is the database's own: the same
\* statement over the same table returns the rows in the same order.  scan
\* ranks the row ids, a table scan returns the rows it matches by rank;
\* SQLite scans a table by rowid, upwards or (reverse_unordered_selects)
\* downwards.
RowidOrder == [i \in 1..NumReq |-> i]
Reverse(s) == [i \in DOMAIN s |-> s[Len(s) + 1 - i]]
ScanOrders == {RowidOrder, Reverse(RowidOrder)}

Returned_unstable(rows, order) == Arrangements(rows)
Returned(rows, order) ==
    LET ids == {rows[k].id : k \in DOMAIN rows}
        ranked == SelectSeq(order, LAMBDA i : i \in ids)
        rest == SelectSeq(rows, LAMBDA b : b.id \notin Range(order))
    IN  {[k \in DOMAIN ranked |-> CHOOSE b \in Range(rows) : b.id = ranked[k]] \o rest}

RECURSIVE SumSeq(_)
SumSeq(s) == IF s = <<>> THEN 0 ELSE Head(s) + SumSeq(Tail(s))

\* durations = [r.duration_seconds for r in rows if r.duration_seconds is not None]
Durations(rows) ==
    LET kept == SelectSeq(rows, LAMBDA b : b.duration_seconds # None)
    IN  [i \in DOMAIN kept |-> kept[i].duration_seconds[1]]

\* avg = sum(durations) / len(durations) if durations else None
Average_zero(durations) ==
    IF Len(durations) > 0 THEN Some(Quot(SumSeq(durations), Len(durations))) ELSE Some(<<0, 1>>)
Average(durations) ==
    IF Len(durations) > 0 THEN Some(Quot(SumSeq(durations), Len(durations))) ELSE None

\* (count / total * 100.0) if total else 0.0
Rate(count, total) == IF total # 0 THEN Quot(100 * count, total) ELSE <<0, 1>>

\* the single pass that keeps, per pipeline, the row with the greatest
\* started_at seen so far (replaced only by a strictly later one)
RECURSIVE LastByPipeline_last_seen(_, _)
LastByPipeline_last_seen(rows, last) ==
    IF rows = <<>> THEN last
    ELSE LET r == Head(rows)
             key == r.pipeline
         IN  LastByPipeline_last_seen(Tail(rows),
                 [k \in DOMAIN last \cup {key} |-> IF k = key THEN r ELSE last[k]])

RECURSIVE LastByPipeline_ties_replace(_, _)
LastByPipeline_ties_replace(rows, last) ==
    IF rows = <<>> THEN last
    ELSE LET r == Head(rows)
             key == r.pipeline
         IN  IF key \notin DOMAIN last \/ r.started_at[1] >= last[key].started_at[1]
             THEN LastByPipeline_ties_replace(Tail(rows),
                      [k \in DOMAIN last \cup {key} |-> IF k = key THEN r ELSE last[k]])
             ELSE LastByPipeline_ties_replace(Tail(rows), last)

RECURSIVE LastByPipeline(_, _)
LastByPipeline(rows, last) ==
    IF rows = <<>> THEN last
    ELSE LET r == Head(rows)
             key == r.pipeline
         IN  IF key \notin DOMAIN last \/ r.started_at[1] > last[key].started_at[1]
             THEN LastByPipeline(Tail(rows),
                      [k \in DOMAIN last \cup {key} |-> IF k = key THEN r ELSE last[k]])
             ELSE LastByPipeline(Tail(rows), last)

EmptyDict == [k \in {} |-> 0]

\* SummaryOut, with the instants the handler computed, the ids of the rows it
\* read, the order the select returned them in and the size of the table when
\* it read them; again: the previous query had the same window and instant
\* and saw the same table
SummaryOut(window, now, since, rows, size, again) ==
    LET total == Len(rows)
        succ == Len(SelectSeq(rows, LAMBDA b : b.status = "success"))
        fail == Len(SelectSeq(rows, LAMBDA b : b.status = "failure"))
        last == LastByPipeline(rows, EmptyDict)
    IN  [code |-> 200, window |-> window,
         success_rate |-> Rate(succ, total),
         failure_rate |-> Rate(fail, total),
         avg_build_time |-> Average(Durations(rows)),
         last_status_by_pipeline |-> [k \in DOMAIN last |-> last[k].status],
         now |-> now, since |-> since,
         read |-> {rows[i].id : i \in DOMAIN rows},
         order |-> [i \in DOMAIN rows |-> rows[i].id], size |-> size,
         again |-> again]

\* int() raised in the handler: the framework answers 500
SummaryError(window, now) ==
    [code |-> 500, window |-> window, success_rate |-> <<0, 1>>,
     failure_rate |-> <<0, 1>>, avg_build_time |-> None,
     last_status_by_pipeline |-> EmptyDict, now |-> now, since |-> now,
     read |-> {}, order |-> <<>>, size |-> 0, again |-> FALSE]

\* no summary was asked for yet
NoSummary ==
    [code |-> 0, window |-> <<>>, success_rate |-> <<0, 1>>,
     failure_rate |-> <<0, 1>>, avg_build_time |-> None,
     last_status_by_pipeline |-> EmptyDict, now |-> 0, since |-> 0,
     read |-> {}, order |-> <<>>, size |-> 0, again |-> FALSE]

\* -------------------------------------------------------------- collectors
\* GitHubCollector._map_conclusion_to_status
map_conclusion_to_status(conclusion) ==
    CASE conclusion = Some("success") -> "success"
      [] conclusion = Some("failure") -> "failure"
      [] conclusion = Some("cancelled") -> "cancelled"
      [] OTHER -> "in_progress"

\* JenkinsCollector._map_result_to_status
map_result_to_status(res) ==
    CASE res = Some("SUCCESS") -> "success"
      [] res = Some("FAILURE") -> "failure"
      [] res = Some("ABORTED") -> "cancelled"
      [] OTHER -> "in_progress"

\* the collection loops forward a run only with one of these results
GithubTerminal_lax == {"success", "failure", "cancelled", "neutral"}
GithubTerminal == {"success", "failure", "cancelled"}
JenkinsTerminal == {"SUCCESS", "FAILURE", "ABORTED"}

\* the f-string logs of the collectors: prefix, number, result
CollectorLog(prefix, number, code) ==
    <<prefix, IF number = None THEN "unknown" ELSE "7", Get(code, "unknown")>>

\* a JSON timestamp string as pydantic reads it into a datetime field
ParseInstant(o) == IF o = None THEN None ELSE Some(fromisoformat(o[1]))

\* GitHubCollector._calculate_duration
calculate_duration(run) ==
    IF run.created_at = None \/ run.updated_at = None THEN None
    ELSE IF ~IsIso(run.created_at[1]) \/ ~IsIso(run.updated_at[1]) THEN None
    ELSE Some(total_seconds(fromisoformat(run.updated_at[1]) - fromisoformat(run.created_at[1])))

\* GitHubCollector.transform_workflow_run, as the IngestRequest the backend
\* reads from the posted JSON
transform_workflow_run(run, repo_name) ==
    [pipeline |-> Get(run.name, "unknown"),
     repo |-> repo_name,
     branch |-> Get(run.head_branch, "main"),
     status |-> map_conclusion_to_status(run.conclusion),
     started_at |-> ParseInstant(run.created_at),
     completed_at |-> ParseInstant(run.updated_at),
     duration_seconds |-> calculate_duration(run),
     url |-> run.html_url,
     logs |-> Some(CollectorLog("GitHub Actions run #", run.run_number, run.conclusion))]

\* JenkinsCollector._timestamp_to_iso: milliseconds to an ISO string, the
\* current time for a missing (or zero) timestamp
timestamp_to_iso(timestamp, now) ==
    IF timestamp = 0 THEN isoformat(now) ELSE isoformat(timestamp \div 60000)

\* JenkinsCollector._duration_to_seconds: duration / 1000.0
duration_to_seconds(duration) == Some(duration \div 1000)

\* JenkinsCollector.transform_build (with _extract_repo_info on a build
\* without a changeSet), as the IngestRequest the backend reads
transform_build(b, job_name, now) ==
    [pipeline |-> job_name,
     repo |-> "unknown",
     branch |-> "main",
     status |-> map_result_to_status(b.result),
     started_at |-> Some(fromisoformat(timestamp_to_iso(b.timestamp, now))),
     completed_at |-> Some(fromisoformat(timestamp_to_iso(b.timestamp + b.duration, now))),
     duration_seconds |-> duration_to_seconds(b.duration),
     url |-> b.url,
     logs |-> Some(CollectorLog("Jenkins build #", b.number, b.result))]

\* ----------------------------------------------- main.py: the build queries
\* the query parameters of GET /builds and GET /builds/latest, None when the
\* caller omits them
DefaultLimit == 50
LimitParams == {None, Some(-1), Some(0), Some(1), Some(2)}
PipelineParams == {None, Some(""), Some("A"), Some("B"), Some("C")}

\* order_by(desc(Build.started_at)): rows of equal started_at in any order
OrderByDesc_unordered(rows) == Arrangements(rows)
OrderByDesc(rows) ==
    {a \in Arrangements(rows) :
        \A i \in DOMAIN a, j \in DOMAIN a : i < j => a[i].started_at[1] >= a[j].started_at[1]}

\* .limit(n): SQLite reads a negative LIMIT as no limit
Limit(rows, n) ==
    IF n < 0 THEN rows ELSE SubSeq(rows, 1, IF n < Len(rows) THEN n ELSE Len(rows))

\* `if pipeline:` is false for an omitted and for an empty parameter
Truthy(o) == o # None /\ o[1] # ""

\* .first(): the first row or None
First(rows) == IF rows = <<>> THEN None ELSE Some(BuildOut(rows[1]))

\* no build query was made yet
NoListing ==
    [op |-> "none", limit |-> 0, pipeline |-> None, rows |-> <<>>, latest |-> None,
     size |-> 0]

NoResult == [code |-> 0, status |-> "none", body |-> None]

Startup ==
    /\ active = <<>>
    /\ wsState = [w \in WS |-> "idle"]
    /\ health = [w \in WS |-> "ok"]
    /\ inbox = [w \in WS |-> <<>>]
    /\ pc = [r \in Req |-> "idle"]
    /\ endpoint = [r \in Req |-> "none"]
    /\ input = [r \in Req |-> None]
    /\ build = [r \in Req |-> 0]
    /\ idx = [r \in Req |-> 0]
    /\ cur = [r \in Req |-> 0]
    /\ pend = [r \in Req |-> "none"]
    /\ to_drop = [r \in Req |-> <<>>]
    /\ store = <<>>
    /\ alerts = <<>>
    /\ result = [r \in Req |-> NoResult]
    /\ oplog = <<>>
    /\ snap = [r \in Req |-> <<>>]
    /\ attempted = [r \in Req |-> <<>>]
    /\ interfered = [r \in Req |-> FALSE]
    /\ summary = NoSummary
    /\ listing = NoListing
    /\ totals = [github |-> 0, jenkins |-> 0]

Init == Startup /\ scan = RowidOrder

\* ------------------------------------------------------------- responses
ValidationError == [code |-> 422, status |-> "validation_error", body |-> None]
StoreError == [code |-> 500, status |-> "store_error", body |-> None]
WebhookError_success == [code |-> 200, status |-> "success", body |-> None]
WebhookError == [code |-> 200, status |-> "error", body |-> None]
WebhookIgnored == [code |-> 200, status |-> "ignored", body |-> None]

\* what the handler returns once the broadcast has returned: ingest_* return b
\* (serialised through BuildOut), the webhooks a fixed dict
Response(ep, b) ==
    IF ep \in {"ingest_github", "ingest_jenkins", "collect_github", "collect_jenkins"}
    THEN [code |-> 200, status |-> "ok", body |-> Some(BuildOut(b))]
    ELSE [code |-> 200, status |-> "success", body |-> None]

\* the order of a handler's statements after validation
HandlerSteps_broadcast_first(r) == <<<<r, "broadcast">>, <<r, "persist">>, <<r, "alert">>>>
HandlerSteps(r) == <<<<r, "persist">>, <<r, "alert">>, <<r, "broadcast">>>>

\* requests and connections are numbered in the order they arrive
Arrives(r) == pc[r] = "idle" /\ (r > 1 => pc[r - 1] # "idle")

\* send_to_dashboard: True when the backend answered and raise_for_status()
\* did not raise
send_to_dashboard(res) == res.code \in 200..299

\* if self.send_to_dashboard(data): total_runs += 1 (total_builds += 1)
Counted(tot, ep, res) ==
    IF ep = "collect_github" /\ send_to_dashboard(res)
    THEN [tot EXCEPT !.github = @ + 1]
    ELSE IF ep = "collect_jenkins" /\ send_to_dashboard(res)
    THEN [tot EXCEPT !.jenkins = @ + 1]
    ELSE tot

\* a request that ends without a committed row; how it ended: "rejected" by
\* the framework's validation, "ignored", or "raised": an exception while the
\* IngestRequest is built, or db.commit() raising (get_db closes the session
\* without the row)
Reject(r, ep, p, how, res) ==
    /\ pc' = [pc EXCEPT ![r] = how]
    /\ endpoint' = [endpoint EXCEPT ![r] = ep]
    /\ input' = [input EXCEPT ![r] = Some(p)]
    /\ result' = [result EXCEPT ![r] = res]
    /\ totals' = Counted(totals, ep, res)
    /\ UNCHANGED <<active, wsState, health, inbox, build, idx, cur, pend,
                   to_drop, store, alerts, oplog, snap, attempted, interfered,
                   summary, scan, listing>>

\* ConnectionManager.broadcast from the head of `for ws in self.active`, the
\* list iterator standing at position i and to_drop holding drop: either the
\* next send_json is started (and the coroutine suspends in it), or the loop
\* is over, to_drop is disconnected and the handler returns.
BroadcastLoop(r, ep, b, i, drop, log) ==
    IF i < Len(active)
    THEN LET w == active[i + 1] IN
         /\ idx' = [idx EXCEPT ![r] = i + 1]
         /\ cur' = [cur EXCEPT ![r] = w]
         /\ pend' = [pend EXCEPT ![r] = SendOutcome(health[w])]
         /\ inbox' = IF SendOutcome(health[w]) = "ok"
                     THEN [inbox EXCEPT ![w] = Append(@, [req |-> r, msg |-> Message(b)])]
                     ELSE inbox
         /\ to_drop' = [to_drop EXCEPT ![r] = drop]
         /\ attempted' = [attempted EXCEPT ![r] = Append(@, w)]
         /\ pc' = [pc EXCEPT ![r] = "send"]
         /\ oplog' = log
         /\ UNCHANGED <<active, result, interfered, totals>>
    ELSE /\ active' = DropAll(active, drop)
         /\ interfered' = [q \in Req |->
                 interfered[q] \/ (q # r /\ pc[q] = "send" /\ active' # active)]
         /\ pc' = [pc EXCEPT ![r] = "done"]
         /\ result' = [result EXCEPT ![r] = Response(ep, b)]
         /\ totals' = Counted(totals, ep, Response(ep, b))
         /\ to_drop' = [to_drop EXCEPT ![r] = drop]
         /\ oplog' = Append(log, <<r, "return">>)
         /\ UNCHANGED <<idx, cur, pend, inbox, attempted>>

\* the common body of the four handlers once the IngestRequest exists:
\* _persist, the alert decision, manager.broadcast up to its first await
PersistAlertBroadcast(r, ep, provider, raw, data) ==
    \E slack_sent \in BOOLEAN, email_sent \in BOOLEAN :
        LET b == persist(store, provider, data) IN
        /\ store' = Append(store, b)
        /\ alerts' = IF ShouldAlert(b)
                     THEN Append(alerts, alert_failure(b, slack_sent, email_sent))
                     ELSE alerts
        /\ endpoint' = [endpoint EXCEPT ![r] = ep]
        /\ input' = [input EXCEPT ![r] = Some(raw)]
        /\ build' = [build EXCEPT ![r] = b.id]
        /\ snap' = [snap EXCEPT ![r] = active]
        /\ BroadcastLoop(r, ep, b, 0, <<>>, oplog \o HandlerSteps(r))
        /\ UNCHANGED <<wsState, health, summary, scan, listing>>

\* POST /ingest/<provider>: FastAPI validates the body against IngestRequest
\* (422 before the handler runs); db.commit() may raise, which the handler
\* does not catch (500)
IngestHandler(r, provider, p) ==
    LET ep == IF provider = "github" THEN "ingest_github" ELSE "ingest_jenkins" IN
    /\ Arrives(r)
    /\ IF ~Validate(p)
       THEN Reject(r, ep, p, "rejected", ValidationError)
       ELSE \/ Reject(r, ep, p, "raised", StoreError)
            \/ PersistAlertBroadcast(r, ep, provider, p, p)

ingest_github(r, payloads) == \E p \in payloads : IngestHandler(r, "github", p)

ingest_jenkins(r, payloads) == \E p \in payloads : IngestHandler(r, "jenkins", p)

\* POST /webhook/<provider>: everything runs inside try/except Exception, which
\* answers {"status": "error"} (for a timestamp that does not parse, an
\* IngestRequest that does not validate, a commit that fails); webhook_github
\* ignores actions other than "completed"
\* if payload.get("action") != "completed": github only
IsIgnored_never(provider, wp) == FALSE
IsIgnored(provider, wp) == provider = "github" /\ wp.action # "completed"

WebhookHandler(r, provider, wp) ==
    LET ep == IF provider = "github" THEN "webhook_github" ELSE "webhook_jenkins" IN
    /\ Arrives(r)
    /\ \E now \in Clock :
        IF IsIgnored(provider, wp)
        THEN Reject(r, ep, wp, "ignored", WebhookIgnored)
        ELSE IF WebhookRaises(wp, now) \/ ~Validate(WebhookRequest(provider, wp, now))
        THEN Reject(r, ep, wp, "raised", WebhookError)
        ELSE \/ Reject(r, ep, wp, "raised", WebhookError)
             \/ PersistAlertBroadcast(r, ep, provider, wp, WebhookRequest(provider, wp, now))

webhook_jenkins(r, payloads) == \E wp \in payloads : WebhookHandler(r, "jenkins", wp)

webhook_github(r, payloads) == \E wp \in payloads : WebhookHandler(r, "github", wp)

\* one pass of a collector's loop body over a run: a run without a terminal
\* result is skipped; any other is transformed and posted to
\* /ingest/<provider>; the POST may fail before it reaches the backend
\* ("unsent": requests raises, send_to_dashboard returns False)
CollectorHandler(r, provider, run, code, terminal, data) ==
    LET ep == IF provider = "github" THEN "collect_github" ELSE "collect_jenkins" IN
    /\ Arrives(r)
    /\ \E reachable \in BOOLEAN :
       IF code = None \/ Get(code, "") \notin terminal
       THEN Reject(r, ep, run, "skipped", NoResult)
       ELSE IF ~reachable
       THEN Reject(r, ep, run, "unsent", NoResult)
       ELSE IF ~Validate(data)
       THEN Reject(r, ep, run, "rejected", ValidationError)
       ELSE \/ Reject(r, ep, run, "raised", StoreError)
            \/ PersistAlertBroadcast(r, ep, provider, run, data)

\* GitHubCollector.collect_organization_data, one run of one repository
collect_github(r, runs) ==
    \E run \in runs :
        CollectorHandler(r, "github", run, run.conclusion, GithubTerminal,
                         transform_workflow_run(run, "org/r"))

\* JenkinsCollector.collect_jenkins_data, one build of one job
collect_jenkins(r, builds) ==
    \E b \in builds, now \in Clock :
        CollectorHandler(r, "jenkins", b, b.result, JenkinsTerminal,
                         transform_build(b, "A", now))

\* manager.broadcast resumes from `await ws.send_json(message)`: the send
\* returned or raised (a send that hangs never resumes), then the loop goes on
BroadcastResume(r) ==
    /\ pc[r] = "send"
    /\ pend[r] \in {"ok", "fail"}
    /\ BroadcastLoop(r, endpoint[r], store[build[r]], idx[r],
                     AfterSend(to_drop[r], cur[r], pend[r]), oplog)
    /\ UNCHANGED <<wsState, health, endpoint, input, build, store, alerts, snap,
                   summary, scan, listing>>

\* websocket_endpoint: manager.connect suspends in `await websocket.accept()`
WSOpen(w) ==
    /\ wsState[w] = "idle"
    /\ w > 1 => wsState[w - 1] # "idle"
    /\ wsState' = [wsState EXCEPT ![w] = "accepting"]
    /\ UNCHANGED <<active, health, inbox, pc, endpoint, input, build, idx, cur, pend,
                   to_drop, store, alerts, result, oplog, snap, attempted, interfered,
                   summary, scan, listing, totals>>

\* the accept returned: self.active.append(websocket), then the handler waits
\* in receive_text()
WSAccepted(w) ==
    /\ wsState[w] = "accepting"
    /\ wsState' = [wsState EXCEPT ![w] = "open"]
    /\ active' = connect(active, w)
    /\ interfered' = [q \in Req |-> interfered[q] \/ pc[q] = "send"]
    /\ UNCHANGED <<health, inbox, pc, endpoint, input, build, idx, cur, pend,
                   to_drop, store, alerts, result, oplog, snap, attempted, summary,
                   scan, listing, totals>>

\* receive_text() raised (the client went away, just now or a while ago):
\* finally: manager.disconnect(ws).  The transport is closed from here on: a
\* send on it raises.
WSClosed_locked(w) ==
    /\ \A q \in Req : pc[q] # "send"
    /\ wsState[w] \in {"open", "hungup"}
    /\ wsState' = [wsState EXCEPT ![w] = "closed"]
    /\ health' = [health EXCEPT ![w] = "broken"]
    /\ active' = disconnect(active, w)
    /\ interfered' = [q \in Req |->
            interfered[q] \/ (pc[q] = "send" /\ active' # active)]
    /\ UNCHANGED <<inbox, pc, endpoint, input, build, idx, cur, pend,
                   to_drop, store, alerts, result, oplog, snap, attempted, summary,
                   scan, listing, totals>>
WSClosed(w) ==
    /\ wsState[w] \in {"open", "hungup"}
    /\ wsState' = [wsState EXCEPT ![w] = "closed"]
    /\ health' = [health EXCEPT ![w] = "broken"]
    /\ active' = disconnect(active, w)
    /\ interfered' = [q \in Req |->
            interfered[q] \/ (pc[q] = "send" /\ active' # active)]
    /\ UNCHANGED <<inbox, pc, endpoint, input, build, idx, cur, pend,
                   to_drop, store, alerts, result, oplog, snap, attempted, summary,
                   scan, listing, totals>>

\* environment: the client goes away while the endpoint coroutine is suspended
\* (in accept or in receive_text) and has not been resumed yet; sends raise
\* from now on
WSHangup(w) ==
    /\ wsState[w] \in {"accepting", "open"}
    /\ wsState' = [wsState EXCEPT ![w] = IF @ = "accepting" THEN "dropped" ELSE "hungup"]
    /\ health' = [health EXCEPT ![w] = "broken"]
    /\ UNCHANGED <<active, inbox, pc, endpoint, input, build, idx, cur, pend,
                   to_drop, store, alerts, result, oplog, snap, attempted, interfered,
                   summary, scan, listing, totals>>

\* manager.connect resumes from the accept of a client that is gone: either
\* accept() raises, connect and the endpoint end there (the connection was
\* never appended), or it returns, the connection is appended and the
\* endpoint goes on to receive_text(), which will raise
WSAcceptGone(w) ==
    /\ wsState[w] = "dropped"
    /\ \/ /\ wsState' = [wsState EXCEPT ![w] = "closed"]
          /\ UNCHANGED <<active, interfered>>
       \/ /\ wsState' = [wsState EXCEPT ![w] = "hungup"]
          /\ active' = connect(active, w)
          /\ interfered' = [q \in Req |-> interfered[q] \/ pc[q] = "send"]
    /\ UNCHANGED <<health, inbox, pc, endpoint, input, build, idx, cur, pend,
                   to_drop, store, alerts, result, oplog, snap, attempted, summary,
                   scan, listing, totals>>

\* the endpoint coroutine of a client that is gone is resumed: receive_text()
\* raises and the finally clause runs
WSFinally(w) == wsState[w] = "hungup" /\ WSClosed(w)

\* environment: the peer of an open connection breaks: sends raise from now on
WSBreak(w) ==
    /\ wsState[w] = "open"
    /\ health[w] = "ok"
    /\ health' = [health EXCEPT ![w] = "broken"]
    /\ UNCHANGED <<active, wsState, inbox, pc, endpoint, input, build, idx, cur, pend,
                   to_drop, store, alerts, result, oplog, snap, attempted, interfered,
                   summary, scan, listing, totals>>

\* environment: the peer of an open connection stops reading: sends on it
\* never complete
WSStall(w) ==
    /\ wsState[w] = "open"
    /\ health[w] = "ok"
    /\ health' = [health EXCEPT ![w] = "stalled"]
    /\ UNCHANGED <<active, wsState, inbox, pc, endpoint, input, build, idx, cur, pend,
                   to_drop, store, alerts, result, oplog, snap, attempted, interfered,
                   summary, scan, listing, totals>>

\* no broadcast is in flight
Quiet == \A q \in Req : pc[q] # "send"

\* GET /builds: the `limit` newest rows by started_at
list_builds(q) ==
    LET limit == Get(q, DefaultLimit) IN
    /\ \E rows \in OrderByDesc(store) :
           listing' = [op |-> "list", limit |-> limit, pipeline |-> None,
                       rows |-> [k \in DOMAIN Limit(rows, limit) |->
                                    BuildOut(Limit(rows, limit)[k])],
                       latest |-> None, size |-> Len(store)]
    /\ UNCHANGED <<active, wsState, health, inbox, pc, endpoint, input, build,
                   idx, cur, pend, to_drop, store, alerts, result, oplog,
                   snap, attempted, interfered, summary, scan, totals>>

\* GET /builds/latest: the newest row, of one pipeline if the caller names it
latest_build(pipeline) ==
    LET q == IF Truthy(pipeline)
             THEN SelectSeq(store, LAMBDA b : b.pipeline = pipeline[1])
             ELSE store
    IN  /\ \E rows \in OrderByDesc(q) :
               listing' = [op |-> "latest", limit |-> 1, pipeline |-> pipeline,
                           rows |-> <<>>, latest |-> First(Limit(rows, 1)),
                           size |-> Len(store)]
        /\ UNCHANGED <<active, wsState, health, inbox, pc, endpoint, input, build,
                       idx, cur, pend, to_drop, store, alerts, result, oplog,
                       snap, attempted, interfered, summary, scan, totals>>

\* GET /metrics/summary: parse the window, read the rows started since the
\* cutoff, aggregate
metrics_summary(q, now) ==
    LET window == Get(q, DefaultWindow)
        parsed == ParseWindow(window)
        since == now - parsed.delta
    IN  /\ IF parsed.raises
           THEN summary' = SummaryError(window, now)
           ELSE \E rows \in Returned(Windowed(store, since), scan) :
                    summary' = SummaryOut(window, now, since, rows, Len(store),
                                          /\ summary.code = 200
                                          /\ summary.window = window
                                          /\ summary.now = now
                                          /\ summary.size = Len(store))
        /\ UNCHANGED <<active, wsState, health, inbox, pc, endpoint, input, build,
                       idx, cur, pend, to_drop, store, alerts, result, oplog,
                       snap, attempted, interfered, scan, listing, totals>>

\* ------------------------------------------------------- specifications
\* Spec: the ingestion pipeline. All four entry points with their payloads,
\* MaxIngest requests (handled concurrently) and MaxSubs connections, which
\* connect and break (a broken one is evicted by the next broadcast); clients
\* that disconnect are in the registry specifications.
Next ==
    \/ \E r \in 1..MaxIngest : ingest_github(r, IngestPayloads)
    \/ \E r \in 1..MaxIngest : ingest_jenkins(r, IngestPayloads)
    \/ \E r \in 1..MaxIngest : webhook_jenkins(r, WebhookPayloads)
    \/ \E r \in 1..MaxIngest : webhook_github(r, WebhookPayloads)
    \/ \E r \in 1..MaxIngest : BroadcastResume(r)
    \/ \E w \in 1..MaxSubs : WSOpen(w)
    \/ \E w \in 1..MaxSubs : WSAccepted(w)
    \/ \E w \in 1..MaxSubs : WSBreak(w)

Spec == Init /\ [][Next]_vars

\* RegistrySpec: the connection registry under churn. NumReq broadcasts, one
\* after the other, each interleaved at its awaits with NumWS connections
\* that connect, break and disconnect at any time.
RegistryNext ==
    \/ \E r \in Req : Quiet /\ ingest_github(r, BroadcastPayloads)
    \/ \E r \in Req : BroadcastResume(r)
    \/ \E w \in WS : WSOpen(w)
    \/ \E w \in WS : WSAccepted(w)
    \/ \E w \in WS : WSClosed(w)
    \/ \E w \in WS : WSBreak(w)

RegistrySpec == Init /\ [][RegistryNext]_vars

\* ConcSpec: NumReq requests handled concurrently (a request is accepted while
\* the broadcasts of earlier ones are suspended in a send) over MaxSubs
\* connections.
ConcNext ==
    \/ \E r \in Req : ingest_github(r, BroadcastPayloads)
    \/ \E r \in Req : BroadcastResume(r)
    \/ \E w \in 1..MaxSubs : WSOpen(w)
    \/ \E w \in 1..MaxSubs : WSAccepted(w)
    \/ \E w \in 1..MaxSubs : WSClosed(w)
    \/ \E w \in 1..MaxSubs : WSBreak(w)

ConcSpec == Init /\ [][ConcNext]_vars

\* RaceSpec: as ConcSpec, over NumWS connections.
RaceNext ==
    \/ \E r \in Req : ingest_jenkins(r, BroadcastPayloads)
    \/ \E r \in Req : BroadcastResume(r)
    \/ \E w \in WS : WSOpen(w)
    \/ \E w \in WS : WSAccepted(w)
    \/ \E w \in WS : WSClosed(w)
    \/ \E w \in WS : WSBreak(w)

RaceSpec == Init /\ [][RaceNext]_vars

\* EvictSpec: broadcasts in flight at the same time over connections that
\* registered while none was in flight and may break at any time
EvictNext ==
    \/ \E r \in Req : ingest_jenkins(r, BroadcastPayloads)
    \/ \E r \in Req : BroadcastResume(r)
    \/ \E w \in WS : Quiet /\ WSOpen(w)
    \/ \E w \in WS : Quiet /\ WSAccepted(w)
    \/ \E w \in WS : WSBreak(w)

EvictSpec == Init /\ [][EvictNext]_vars

\* FairSpec: RegistrySpec with peers that may stop reading, under the event
\* loop's scheduling: a coroutine whose awaited send has returned or raised is
\* resumed.
StallNext ==
    \/ \E r \in Req : Quiet /\ ingest_github(r, BroadcastPayloads)
    \/ \E r \in Req : BroadcastResume(r)
    \/ \E w \in WS : WSOpen(w)
    \/ \E w \in WS : WSAccepted(w)
    \/ \E w \in WS : WSClosed(w)
    \/ \E w \in WS : WSStall(w)

FairSpec ==
    /\ Init
    /\ [][StallNext]_vars
    /\ \A r \in Req : WF_vars(BroadcastResume(r))

\* ChurnSpec: the registry under clients that go away at any time: before
\* the accept has returned, between broadcasts, while a broadcast is suspended
\* in a send, after a failed send (a send to a client that is gone raises).
\* MaxIngest broadcasts, one after the other, over NumWS connections, under
\* the event loop's scheduling of the endpoint coroutines: one whose await
\* (accept, receive_text) has returned or raised is resumed.
ChurnNext ==
    \/ \E r \in 1..MaxIngest : Quiet /\ ingest_github(r, BroadcastPayloads)
    \/ \E r \in 1..MaxIngest : BroadcastResume(r)
    \/ \E w \in WS : WSOpen(w)
    \/ \E w \in WS : WSAccepted(w)
    \/ \E w \in WS : WSHangup(w)
    \/ \E w \in WS : WSAcceptGone(w)
    \/ \E w \in WS : WSFinally(w)

ChurnSpec ==
    /\ Init
    /\ [][ChurnNext]_vars
    /\ \A w \in WS : WF_vars(WSAcceptGone(w))
    /\ \A w \in WS : WF_vars(WSFinally(w))

\* StoreSpec: what reaches the store. NumReq requests, one after the other and
\* without subscribers, on every path into the store: the ingest endpoints,
\* the webhooks and the collectors.
StoreNext ==
    \/ \E r \in Req : ingest_github(r, StorePayloads)
    \/ \E r \in Req : ingest_jenkins(r, StorePayloads)
    \/ \E r \in Req : webhook_github(r, StoreWebhooks)
    \/ \E r \in Req : webhook_jenkins(r, StoreWebhooks)
    \/ \E r \in Req : collect_github(r, GithubRuns)
    \/ \E r \in Req : collect_jenkins(r, JenkinsBuilds)

StoreSpec == Init /\ [][StoreNext]_vars

\* MetricsSpec: NumReq rows ingested one after the other and metrics queries
\* over them, with every window string.
MetricsNext ==
    \/ \E r \in Req : ingest_github(r, MetricsPayloads)
    \/ \E q \in Windows, now \in MetricsClock : metrics_summary(q, now)

\* the table scan may follow any order of the rows, the same for every query
\* QuerySpec: ingestion and the two build queries
QueryNext ==
    \/ \E r \in Req : ingest_github(r, MetricsPayloads)
    \/ \E q \in LimitParams : list_builds(q)
    \/ \E pipeline \in PipelineParams : latest_build(pipeline)

QuerySpec == Init /\ [][QueryNext]_vars

MetricsInit == Startup /\ scan \in ScanOrders

MetricsSpec == MetricsInit /\ [][MetricsNext]_vars

\* ----------------------------------------------------------------- claims
\* number of messages of request r's broadcast in a connection's inbox
Count(box, r) == Cardinality({i \in DOMAIN box : box[i].req = r})

\* the steps the history records for request r, in order
Labels(r) ==
    LET own == SelectSeq(oplog, LAMBDA e : e[1] = r)
    IN  [i \in DOMAIN own |-> own[i][2]]

Delivered(r) == {w \in WS : Count(inbox[w], r) > 0}

IngestEndpoints == {"ingest_github", "ingest_jenkins"}
WebhookEndpoints == {"webhook_github", "webhook_jenkins"}
ProviderOf(ep) ==
    IF ep \in {"ingest_github", "webhook_github", "collect_github"} THEN "github" ELSE "jenkins"

\* C5: on every entry point the steps of a request are persist, then the
\* alert decision, then the broadcast invocation, each at most once and in
\* that order; whenever a broadcast has been invoked or a message delivered,
\* the request's row is committed in the store.
C5_PersistAlertBroadcastOrder ==
    /\ \A r \in Req :
        /\ Labels(r) \in {<<>>,
                          <<"persist", "alert", "broadcast">>,
                          <<"persist", "alert", "broadcast", "return">>}
        /\ Labels(r) # <<>> => build[r] \in DOMAIN store
        /\ pc[r] \in {"send", "done"} => Labels(r) # <<>>
    /\ \A w \in WS : \A i \in DOMAIN inbox[w] :
        /\ build[inbox[w][i].req] \in DOMAIN store
        /\ inbox[w][i].msg = Message(store[build[inbox[w][i].req]])

C5_Witness ==
    \E r \in Req :
        /\ endpoint[r] = "webhook_github"
        /\ pc[r] = "done"
        /\ store[build[r]].status = "failure"
        /\ Delivered(r) # {}

\* C6: alert_failure is called exactly once for every persisted row whose
\* status is failure, with that row's pipeline and repo and its url and logs
\* (an absent url or logs is handed over as the empty string), and for no
\* other row; every call is for a row already in the store.
C6_AlertExactlyOncePerFailure ==
    /\ \A i \in DOMAIN store :
        LET hits == {k \in DOMAIN alerts : alerts[k].build = i} IN
        IF store[i].status = "failure"
        THEN /\ Cardinality(hits) = 1
             /\ \A k \in hits :
                 /\ alerts[k].pipeline = store[i].pipeline
                 /\ alerts[k].repo = store[i].repo
                 /\ alerts[k].url = OrEmpty(store[i].url)
                 /\ alerts[k].logs = OrEmpty(store[i].logs)
        ELSE hits = {}
    /\ \A k \in DOMAIN alerts : alerts[k].build \in DOMAIN store

C6_Witness ==
    \E i \in DOMAIN store :
        /\ store[i].status = "failure"
        /\ store[i].url # None
        /\ store[i].logs = None
        /\ \E k \in DOMAIN alerts :
            alerts[k].build = i /\ alerts[k].url = store[i].url[1] /\ alerts[k].logs = ""

\* every row of the store belongs to exactly one request, and every alert to
\* a row
Accounted ==
    /\ \A i \in DOMAIN store : Cardinality({q \in Req : build[q] = i}) = 1
    /\ \A q \in Req : build[q] # 0 => build[q] \in DOMAIN store
    /\ \A k \in DOMAIN alerts : alerts[k].build \in DOMAIN store

\* request r left nothing behind: no row, no alert, no step, no message
NoTrace(r) ==
    /\ build[r] = 0
    /\ Labels(r) = <<>>
    /\ attempted[r] = <<>>
    /\ \A w \in WS : Count(inbox[w], r) = 0

\* C7: a request whose handler ended in an exception (db.commit() raising, on
\* the webhooks also a payload that cannot be parsed) sent no alert, invoked
\* no broadcast and left no row, and its caller got a failure outcome: HTTP
\* 500 on /ingest/*, {"status": "error"} on /webhook/*.
C7_PersistFailureLeavesNothing ==
    /\ Accounted
    /\ \A r \in Req : pc[r] = "raised" =>
        /\ NoTrace(r)
        /\ result[r].body = None
        /\ IF endpoint[r] \in IngestEndpoints
           THEN result[r].code = 500
           ELSE result[r].status = "error"

C7_Witness ==
    /\ \E r \in Req : pc[r] = "raised" /\ endpoint[r] = "ingest_jenkins"
                      /\ Validate(input[r][1])

\* C8: a request to /ingest/* whose status is none of the four or whose
\* started_at is missing ends with a validation error and leaves no row, no
\* alert and no message.
C8_InvalidRejectedBeforePersist ==
    /\ Accounted
    /\ \A r \in Req :
        (/\ endpoint[r] \in IngestEndpoints
         /\ \/ input[r][1].status \notin {"success", "failure", "cancelled", "in_progress"}
            \/ input[r][1].started_at = None)
        => /\ pc[r] = "rejected"
           /\ result[r] = ValidationError
           /\ NoTrace(r)

C8_Witness ==
    \E r \in Req :
        /\ endpoint[r] = "ingest_github"
        /\ input[r][1].status = "SUCCESS"
        /\ input[r][1].started_at # None
        /\ pc[r] = "rejected"

\* C9: an /ingest/* request whose row was committed and whose broadcast has
\* returned answers 200 with that row: the store's id, the entry point's
\* provider, the payload's fields; whatever the alert delivery and the sends
\* did.
C9_SuccessReturnsRecord ==
    \A r \in Req :
        (endpoint[r] \in IngestEndpoints /\ build[r] # 0 /\ pc[r] # "send") =>
            /\ pc[r] = "done"
            /\ result[r].code = 200
            /\ result[r].body # None
            /\ LET out == result[r].body[1]
                   p == input[r][1]
               IN  /\ out.id = build[r]
                   /\ out = BuildOut(store[build[r]])
                   /\ out.provider = ProviderOf(endpoint[r])
                   /\ out.pipeline = p.pipeline
                   /\ out.repo = p.repo
                   /\ out.branch = p.branch
                   /\ out.status = p.status
                   /\ out.started_at = p.started_at
                   /\ out.completed_at = p.completed_at
                   /\ out.url = p.url

C9_Witness ==
    \E r \in Req :
        /\ endpoint[r] = "ingest_jenkins"
        /\ pc[r] = "done"
        /\ to_drop[r] # <<>>
        /\ \E k \in DOMAIN alerts : alerts[k].build = build[r] /\ ~alerts[k].sent
        /\ result[r].code = 200

\* position of a step in the history
InLog(e) == \E i \in DOMAIN oplog : oplog[i] = e
Pos(e) == CHOOSE i \in DOMAIN oplog : oplog[i] = e

\* q's broadcast was invoked after r's had returned
InvokedAfterReturn(q, r) ==
    /\ InLog(<<r, "return">>)
    /\ InLog(<<q, "broadcast">>)
    /\ Pos(<<r, "return">>) < Pos(<<q, "broadcast">>)

\* the connections on which r's broadcast called send_json without delivering
Failed(r) == {w \in Range(attempted[r]) : Count(inbox[w], r) = 0}

\* the list s without the members of the set gone, order kept
Without(s, gone) == SelectSeq(s, LAMBDA x : x \notin gone)

\* the broadcast of r has returned and the registry did not change under it
Undisturbed(r) == pc[r] = "done" /\ ~interfered[r]

\* C1: a broadcast during which no connection registers or unregisters calls
\* send_json once on each of the N registered connections, in order; every
\* connection whose send did not fail has the message exactly once; when the
\* broadcast returns the registry is the N connections less the failed ones;
\* no later broadcast calls send_json on a failed one.
C1_FailedSendEvictsOnlyFailed ==
    /\ [](\A r \in Req : Undisturbed(r) =>
            /\ attempted[r] = snap[r]
            /\ \A w \in Range(snap[r]) \ Failed(r) : Count(inbox[w], r) = 1
            /\ Failed(r) \cap Range(active) = {}
            /\ \A q \in Req : InvokedAfterReturn(q, r) =>
                  Failed(r) \cap Range(attempted[q]) = {})
    /\ [][\A r \in Req :
            (pc[r] = "send" /\ pc'[r] = "done" /\ ~interfered[r]) =>
                active' = Without(snap[r], Failed(r))]_vars

C1_Witness ==
    \E r \in Req, q \in Req :
        /\ Undisturbed(r) /\ Undisturbed(q)
        /\ Len(snap[r]) = 2
        /\ Cardinality(Failed(r)) = 1
        /\ Cardinality(Delivered(r)) = 1
        /\ InvokedAfterReturn(q, r)
        /\ Len(attempted[q]) = 1
        /\ Delivered(q) = Delivered(r)

\* C2: a connection that was registered when a broadcast was invoked and is
\* still registered after it returned has the message exactly once, whatever
\* registered or unregistered while the broadcast was suspended.
C2_NoSkipUnderChurn ==
    \A r \in Req : pc[r] = "done" =>
        \A w \in Range(snap[r]) \cap Range(active) : Count(inbox[w], r) = 1

\* C3: a connection that has the messages of two broadcasts has them in the
\* order in which the broadcasts were invoked.
C3_PerSubscriberFIFO ==
    \A w \in WS : \A i \in DOMAIN inbox[w], j \in DOMAIN inbox[w] :
        i < j => Pos(<<inbox[w][i].req, "broadcast">>) < Pos(<<inbox[w][j].req, "broadcast">>)

C10_BroadcastReturns ==
    \A r \in Req : (pc[r] = "send") ~> (pc[r] = "done")

\* a window string of the form <digits>h or <digits>d, and its length in minutes
WellFormedWindow(w) ==
    /\ Len(w) >= 2
    /\ w[Len(w)] \in {"h", "d"}
    /\ \A i \in 1..(Len(w) - 1) : w[i] \in Range(DigitChars)
WindowMinutes(w) ==
    IF w[Len(w)] = "h" THEN 60 * DigitsVal(DropLast(w)) ELSE 1440 * DigitsVal(DropLast(w))

\* C19: a metrics query with window <n>h has its cutoff n hours before now,
\* with <n>d n days before now (an omitted window is 7d); a query with any
\* other window string is answered with an error, never with a summary.
C19_MalformedWindowRejected ==
    summary.code # 0 =>
        IF WellFormedWindow(summary.window)
        THEN /\ summary.code = 200
             /\ summary.since = summary.now - WindowMinutes(summary.window)
        ELSE summary.code # 200

\* the rows of the table, as it was when the summary was computed, that
\* started at or after the cutoff; those among them with a given status
InWindow == {i \in 1..summary.size : store[i].started_at[1] >= summary.since}
WithStatus(ids, st) == {i \in ids : store[i].status = st}

\* C20: a summary is computed from exactly the rows with started_at >= the
\* cutoff; success_rate = 100 * successes / rows and failure_rate = 100 *
\* failures / rows over them, each within [0, 100] and together at most 100;
\* over no rows both rates are 0 and avg_build_time is absent.
C20_RatesOverWindow ==
    summary.code = 200 =>
        LET total == Cardinality(InWindow)
            sr == summary.success_rate
            fr == summary.failure_rate
        IN  /\ summary.read = InWindow
            /\ sr[2] > 0 /\ fr[2] > 0
            /\ sr[1] * total = 100 * Cardinality(WithStatus(InWindow, "success")) * sr[2]
            /\ fr[1] * total = 100 * Cardinality(WithStatus(InWindow, "failure")) * fr[2]
            /\ 0 <= sr[1] /\ sr[1] <= 100 * sr[2]
            /\ 0 <= fr[1] /\ fr[1] <= 100 * fr[2]
            /\ sr[1] * fr[2] + fr[1] * sr[2] <= 100 * sr[2] * fr[2]
            /\ total = 0 =>
                  /\ sr = <<0, 1>> /\ fr = <<0, 1>>
                  /\ summary.avg_build_time = None

C20_Witness ==
    /\ summary.code = 200
    /\ summary.window = <<"1", "h">>
    /\ summary.size = 2
    /\ Cardinality(summary.read) = 1
    /\ \E i \in summary.read :
          store[i].started_at[1] = summary.since /\ store[i].status = "failure"
    /\ summary.failure_rate = <<100, 1>>
    /\ summary.success_rate = <<0, 1>>

\* the sum of duration_seconds over a set of rows of the table
RECURSIVE SumDurations(_)
SumDurations(ids) ==
    IF ids = {} THEN 0
    ELSE LET i == CHOOSE j \in ids : TRUE
         IN  store[i].duration_seconds[1] + SumDurations(ids \ {i})

\* the rows of the window that carry a duration
Timed == {i \in InWindow : store[i].duration_seconds # None}

\* C21: avg_build_time is the sum of duration_seconds over the rows of the
\* window with a non-null duration divided by their number, and is absent,
\* not zero, when the window has no such row, even if it has rows.
C21_AverageOverTimedRows ==
    summary.code = 200 =>
        IF Timed = {}
        THEN summary.avg_build_time = None
        ELSE /\ summary.avg_build_time # None
             /\ summary.avg_build_time[1][2] > 0
             /\ summary.avg_build_time[1][1] * Cardinality(Timed)
                    = SumDurations(Timed) * summary.avg_build_time[1][2]

\* a window of two rows, one without a duration and one of 120 seconds: the
\* average is 120, the row without a duration is not counted
C21_Witness ==
    /\ summary.code = 200
    /\ Cardinality(InWindow) = 2
    /\ Cardinality(Timed) = 1
    /\ \E i \in Timed : store[i].duration_seconds = Some(120)
    /\ summary.avg_build_time = Some(<<120, 1>>)

\* the rows of the window of one pipeline, and the newest among them
OfPipeline(p) == {i \in InWindow : store[i].pipeline = p}
Newest(p) ==
    {i \in OfPipeline(p) :
        \A j \in OfPipeline(p) : store[j].started_at[1] <= store[i].started_at[1]}

\* C22: whatever the order the rows come back in, last_status_by_pipeline
\* has exactly the pipelines that have a row in the window, and gives for
\* each the status of one of its rows with the greatest started_at.
C22_LastStatusIsNewest ==
    summary.code = 200 =>
        /\ DOMAIN summary.last_status_by_pipeline = {store[i].pipeline : i \in InWindow}
        /\ \A p \in DOMAIN summary.last_status_by_pipeline :
               \E i \in Newest(p) : store[i].status = summary.last_status_by_pipeline[p]

\* two rows of pipeline A of different age and status, the newer returned
\* first: A's entry is the newer row's status, and B has no entry
C22_Witness ==
    /\ summary.code = 200
    /\ Len(summary.order) = 2
    /\ \A i \in InWindow : store[i].pipeline = "A"
    /\ store[summary.order[1]].started_at[1] > store[summary.order[2]].started_at[1]
    /\ store[summary.order[1]].status # store[summary.order[2]].status
    /\ DOMAIN summary.last_status_by_pipeline = {"A"}
    /\ summary.last_status_by_pipeline["A"] = store[summary.order[1]].status

\* the place of a row in the order the select returned
Place(i) == CHOOSE k \in DOMAIN summary.order : summary.order[k] = i
Maximum(ids) == CHOOSE i \in ids : \A j \in ids : j <= i

\* C23: when several rows of a pipeline share the greatest started_at, its
\* entry is the status of the one inserted last.
C23_TieLatestInsertedWins ==
    summary.code = 200 =>
        \A p \in DOMAIN summary.last_status_by_pipeline :
            summary.last_status_by_pipeline[p] = store[Maximum(Newest(p))].status

\* C24: a pipeline's entry is the status of the first row returned among its
\* rows with the greatest started_at: a row seen later replaces the entry
\* only with a strictly greater started_at.
C24_FirstSeenWinsOnTie ==
    summary.code = 200 =>
        \A p \in DOMAIN summary.last_status_by_pipeline :
            \E i \in Newest(p) :
                /\ \A j \in Newest(p) : Place(i) <= Place(j)
                /\ summary.last_status_by_pipeline[p] = store[i].status

\* two rows of pipeline A with the same started_at and different statuses:
\* A's entry is the status of the one returned first
C24_Witness ==
    /\ summary.code = 200
    /\ Len(summary.order) = 2
    /\ \A i \in InWindow : store[i].pipeline = "A"
    /\ store[summary.order[1]].started_at = store[summary.order[2]].started_at
    /\ store[summary.order[1]].status # store[summary.order[2]].status
    /\ summary.last_status_by_pipeline["A"] = store[summary.order[1]].status

\* what the caller of the summary gets
Snapshot(s) ==
    <<s.window, s.success_rate, s.failure_rate, s.avg_build_time,
      s.last_status_by_pipeline>>

\* C25: a summary query changes neither the store, the registry, the alert
\* log nor any delivery; it reads only rows that are in the store; and a
\* query with the window, the instant and the table of the query before it
\* returns the same snapshot.
C25_SummaryReadOnlyIdempotent ==
    [][summary' # summary =>
          /\ store' = store /\ active' = active /\ alerts' = alerts /\ inbox' = inbox
          /\ summary'.read \subseteq 1..Len(store)
          /\ summary'.again => Snapshot(summary') = Snapshot(summary)]_vars

\* the same query asked twice over a table holding two rows of one pipeline
\* with the same started_at and different statuses, one of them alerted
C25_Witness ==
    /\ summary.code = 200
    /\ summary.again
    /\ Len(summary.order) = 2
    /\ store[1].pipeline = store[2].pipeline
    /\ store[1].started_at = store[2].started_at
    /\ store[1].status # store[2].status
    /\ alerts # <<>>

CollectorEndpoints == {"collect_github", "collect_jenkins"}

\* the requests that left a row in the store
Stored(eps) == {r \in Req : endpoint[r] \in eps /\ build[r] # 0}

\* C14: no row of the store has a negative duration_seconds: it is null or
\* at least 0 (a completed_at earlier than started_at gives null).
C14_DurationNeverNegative ==
    \A i \in DOMAIN store :
        \/ store[i].duration_seconds = None
        \/ store[i].duration_seconds[1] >= 0

\* C15: the stored duration of a row is the request's duration_seconds when
\* it carries one, whatever its timestamps; else 60 seconds per minute between
\* started_at and completed_at when completed_at is present; else null.  (The
\* webhooks never carry a duration and always a completed_at.)
C15_DurationDerivation ==
    /\ \A r \in Stored(IngestEndpoints) :
        LET p == input[r][1]
            d == store[build[r]].duration_seconds
        IN  IF p.duration_seconds # None THEN d = p.duration_seconds
            ELSE IF p.completed_at # None
            THEN d = Some(60 * (p.completed_at[1] - p.started_at[1]))
            ELSE d = None
    /\ \A r \in Stored(WebhookEndpoints) :
        LET b == store[build[r]]
        IN  b.duration_seconds = Some(60 * (b.completed_at[1] - b.started_at[1]))

C15_Witness ==
    \E r \in Stored(IngestEndpoints), q \in Stored(IngestEndpoints) :
        /\ input[r][1].duration_seconds = Some(30)
        /\ input[r][1].completed_at # None
        /\ input[r][1].completed_at[1] - input[r][1].started_at[1] = 2
        /\ store[build[r]].duration_seconds = Some(30)
        /\ input[q][1].duration_seconds = None
        /\ input[q][1].completed_at # None
        /\ input[q][1].completed_at[1] - input[q][1].started_at[1] = 2
        /\ store[build[q]].duration_seconds = Some(120)

\* the value stored for a key the request may omit
OrUnknown(given) == IF given = Absent THEN "unknown" ELSE given

\* C16: a request without pipeline, repo or branch is accepted and its row
\* has "unknown" in place of each missing one, on the ingest endpoints and on
\* the webhooks; a request is rejected only for a missing (or invalid) status
\* or a missing started_at.
C16_MissingNamesBecomeUnknown ==
    /\ \A r \in Req : endpoint[r] \in IngestEndpoints =>
        LET p == input[r][1] IN
        IF p.status \in Statuses /\ p.started_at # None
        THEN /\ pc[r] # "rejected"
             /\ build[r] # 0 =>
                  /\ store[build[r]].pipeline = OrUnknown(p.pipeline)
                  /\ store[build[r]].repo = OrUnknown(p.repo)
                  /\ store[build[r]].branch = OrUnknown(p.branch)
        ELSE pc[r] = "rejected"
    /\ \A r \in Stored(WebhookEndpoints) :
        LET wp == input[r][1] IN
        /\ store[build[r]].pipeline = Get(wp.name, "unknown")
        /\ store[build[r]].repo = Get(wp.full_name, "unknown")
        /\ store[build[r]].branch = Get(wp.head_branch, "unknown")

\* the provider codes the mappings are asked about
Conclusions == {Some("success"), Some("failure"), Some("cancelled"), Some("neutral"),
                Some("timed_out"), None}
Results == {Some("SUCCESS"), Some("FAILURE"), Some("ABORTED"), Some("UNSTABLE"), None}
Terminal == {"success", "failure", "cancelled"}

\* C17: on each path that maps a provider code (the two collectors' mapping
\* functions, the two webhook handlers) a code that is no recognized terminal
\* code (an unknown string, null) gives in_progress and a recognized one gives
\* one of success, failure, cancelled.
C17_UnrecognizedIsInProgress ==
    /\ \A c \in Conclusions :
        IF c \in {Some(t) : t \in GithubTerminal}
        THEN map_conclusion_to_status(c) \in Terminal
        ELSE map_conclusion_to_status(c) = "in_progress"
    /\ \A c \in Results :
        IF c \in {Some(t) : t \in JenkinsTerminal}
        THEN map_result_to_status(c) \in Terminal
        ELSE map_result_to_status(c) = "in_progress"
    /\ \A r \in Stored(WebhookEndpoints) :
        IF input[r][1].conclusion \in {Some(t) : t \in GithubTerminal}
        THEN store[build[r]].status \in Terminal
        ELSE store[build[r]].status = "in_progress"

\* C18: every row of the store has one of the four statuses, whatever was
\* requested on whatever entry point.
C18_StoredStatusCanonical ==
    \A i \in DOMAIN store :
        store[i].status \in {"success", "failure", "cancelled", "in_progress"}

C18_Witness ==
    \E r \in Req, q \in Req :
        /\ endpoint[r] = "ingest_jenkins"
        /\ input[r][1].status = "SUCCESS"
        /\ pc[r] = "rejected"
        /\ endpoint[q] = "webhook_github"
        /\ input[q][1].conclusion = Some("neutral")
        /\ build[q] # 0
        /\ store[build[q]].status = "failure"

\* the client of w is gone and its endpoint coroutine has not yet run on
Gone(w) == wsState[w] \in {"dropped", "hungup"}

\* C11: the endpoint of a connection whose client went away (before the
\* accept returned, between or during broadcasts, before or after a failed
\* send evicted it) eventually ends and stays ended; a connection whose
\* endpoint has ended is not in the registry, so it is eventually out of the
\* registry for good, and with every connection closed the registry is empty.
C11_DisconnectedEventuallyAbsent ==
    /\ \A w \in WS : Gone(w) ~> (wsState[w] = "closed")
    /\ [][\A w \in WS : wsState[w] = "closed" => wsState'[w] = "closed"]_vars
    /\ [](\A w \in WS : wsState[w] = "closed" => w \notin Range(active))
    /\ []((\A w \in WS : wsState[w] = "closed") => active = <<>>)

C11_Witness ==
    \E w \in WS, v \in WS, r \in Req :
        /\ wsState[w] = "hungup" /\ w \in Range(active)
        /\ pc[r] = "send" /\ cur[r] = v /\ pend[r] = "fail"
        /\ wsState[v] = "closed" /\ v \notin Range(active)

\* C12: disconnect of a connection that is not registered leaves the
\* registry as it is (and fails on nothing); disconnect of a registered one
\* removes it, and a second disconnect changes nothing more.
C12_DisconnectIdempotent ==
    \A w \in WS :
        LET once == disconnect(active, w) IN
        /\ w \notin Range(active) => once = active
        /\ w \notin Range(once)
        /\ Len(once) = Len(active) - (IF w \in Range(active) THEN 1 ELSE 0)
        /\ disconnect(once, w) = once

\* w was disconnected twice: by the eviction of a broadcast and by its endpoint
C12_Witness ==
    \E w \in WS, v \in WS, r \in Req :
        /\ pc[r] = "done" /\ w \in Range(to_drop[r])
        /\ wsState[w] = "closed"
        /\ v # w /\ v \in Range(active)

C26_StoreAppendOnly ==
    /\ [](\A i \in DOMAIN store, j \in DOMAIN store :
             store[i].id = store[j].id => i = j)
    /\ [][/\ Len(store') >= Len(store)
          /\ SubSeq(store', 1, Len(store)) = store]_vars

\* two rows, persisted by different providers' entry points
C26_Witness ==
    /\ Len(store) = 2
    /\ store[1].id # store[2].id
    /\ store[1].provider # store[2].provider

\* C27: every message in a subscriber's inbox is a build_ingested
\* notification whose pipeline, repo, status and provider are those of a row
\* that is in the store, the row of the request that sent it; a request that
\* was refused or whose row was not stored has sent no message.
C27_DeliveredMatchesPersisted ==
    /\ \A w \in WS : \A i \in DOMAIN inbox[w] :
          LET m == inbox[w][i].msg IN
          /\ m.event = "build_ingested"
          /\ DOMAIN m.data = {"pipeline", "repo", "status", "provider"}
          /\ \E k \in DOMAIN store :
                /\ k = build[inbox[w][i].req]
                /\ m.data.pipeline = store[k].pipeline
                /\ m.data.repo = store[k].repo
                /\ m.data.status = store[k].status
                /\ m.data.provider = store[k].provider
    /\ \A r \in Req : build[r] = 0 => Delivered(r) = {}

\* a subscriber holds the notification of a failed build stored by the
\* jenkins webhook
C27_Witness ==
    \E w \in WS : \E i \in DOMAIN inbox[w] :
        /\ inbox[w][i].msg.data.provider = "jenkins"
        /\ inbox[w][i].msg.data.status = "failure"
        /\ endpoint[inbox[w][i].req] = "webhook_jenkins"

\* C28: a GitHub webhook whose action is not "completed" is answered with
\* status "ignored", and handling it leaves the store, the alert log and
\* every subscriber's deliveries as they were.
C28_NonCompletedIgnored ==
    /\ [](\A r \in Req :
            (endpoint[r] = "webhook_github" /\ input[r][1].action # "completed") =>
                /\ pc[r] = "ignored"
                /\ result[r].status = "ignored"
                /\ NoTrace(r))
    /\ [][\A r \in Req :
            (pc[r] # "ignored" /\ pc'[r] = "ignored") =>
                store' = store /\ alerts' = alerts /\ inbox' = inbox]_vars

\* a webhook without an action, reporting a failed run, was ignored while a
\* subscriber was registered
C28_Witness ==
    \E r \in Req :
        /\ pc[r] = "ignored"
        /\ input[r][1].action = Absent
        /\ input[r][1].conclusion = Some("failure")
        /\ active # <<>>
        /\ store = <<>> /\ alerts = <<>>

\* the rows of the table, as it was when the query ran, of one pipeline
Persisted(p) == {i \in 1..listing.size : store[i].pipeline = p}

\* the listing has at most `limit` rows, newest first
ListingBounded ==
    /\ Len(listing.rows) <= listing.limit
    /\ \A i \in DOMAIN listing.rows, j \in DOMAIN listing.rows :
          i < j => listing.rows[i].started_at[1] >= listing.rows[j].started_at[1]
    /\ \A i \in DOMAIN listing.rows :
          /\ listing.rows[i].id \in 1..listing.size
          /\ listing.rows[i] = BuildOut(store[listing.rows[i].id])

\* the latest build of pipeline p: null without a row of p, else a newest row of p
LatestOf(p) ==
    IF Persisted(p) = {}
    THEN listing.latest = None
    ELSE /\ listing.latest # None
         /\ listing.latest[1].pipeline = p
         /\ listing.latest[1].id \in Persisted(p)
         /\ listing.latest[1] = BuildOut(store[listing.latest[1].id])
         /\ \A i \in Persisted(p) :
               store[i].started_at[1] <= listing.latest[1].started_at[1]

C30_LateJoinerServed ==
    [][\A r \in Req :
          (pc[r] = "send" /\ pc'[r] = "done") =>
              \A w \in Range(active) \ Range(snap[r]) :
                  health[w] = "ok" => Count(inbox'[w], r) = 1]_vars

\* C31: eviction is deferred to the end of the broadcast: a broadcast that
\* goes on to its next send leaves the registry as it is, so a connection
\* whose send failed stays registered and a concurrent broadcast can still
\* call send_json on it; the step that ends a broadcast removes exactly the
\* connections on its to_drop that are still registered, and every other
\* connection stays; once a broadcast has returned none of the connections
\* it failed on is registered, also when another broadcast failed on the
\* same connection and evicted it first.
C31_EvictionDeferred ==
    /\ [][\A r \in Req :
            /\ (pc[r] = "send" /\ pc'[r] = "send" /\ idx'[r] # idx[r]) =>
                  active' = active
            /\ (pc[r] = "send" /\ pc'[r] = "done") =>
                  /\ active' = Without(active, Range(to_drop'[r]))
                  /\ Range(to_drop'[r]) = Failed(r)]_vars
    /\ [](\A r \in Req : pc[r] = "done" => Failed(r) \cap Range(active) = {})

\* two broadcasts in flight at once both failed on connection 1, both have
\* returned, connection 1 is gone and connection 2, which got both messages,
\* is registered
C31_Witness ==
    \E r \in Req, q \in Req :
        /\ r # q
        /\ pc[r] = "done" /\ pc[q] = "done"
        /\ ~InvokedAfterReturn(q, r) /\ ~InvokedAfterReturn(r, q)
        /\ to_drop[r] = <<1>> /\ to_drop[q] = <<1>>
        /\ active = <<2>>
        /\ Count(inbox[2], r) = 1 /\ Count(inbox[2], q) = 1

\* the endpoint of w is past its accept and has not run its finally clause
Accepted(w) == wsState[w] \in {"open", "hungup"}

\* C32: the registry holds no connection twice; a registered connection is
\* one whose accept has completed and whose endpoint has not unregistered
\* it; a connection enters the registry only in the step that completes its
\* accept, which happens once, so one that was unregistered or evicted does
\* not come back.
C32_RegistryInvariant ==
    /\ [](\A i \in DOMAIN active, j \in DOMAIN active : active[i] = active[j] => i = j)
    /\ [](\A w \in Range(active) : Accepted(w))
    /\ [][\A w \in WS :
            /\ (w \notin Range(active) /\ w \in Range(active')) =>
                  (~Accepted(w) /\ Accepted(w)')
            /\ (Accepted(w) \/ wsState[w] = "closed") =>
                  wsState'[w] \notin {"idle", "accepting", "dropped"}]_vars

\* connection 1 was evicted by a broadcast before its endpoint ended,
\* connection 2, accepted after its client had gone, is registered
C32_Witness ==
    /\ wsState[1] = "hungup" /\ 1 \notin Range(active)
    /\ wsState[2] = "hungup" /\ active = <<2>>
    /\ \E r \in Req : pc[r] = "done" /\ to_drop[r] = <<1>>

\* C33: every row stored by a webhook entry point has status success or
\* failure: success when the run's conclusion is "success", failure for any
\* other conclusion (cancelled, an unknown string, null), and each such
\* failure row has its failure alert.
C33_WebhookSuccessOrFailure ==
    \A r \in Stored(WebhookEndpoints) :
        LET b == store[build[r]] IN
        /\ b.status \in {"success", "failure"}
        /\ b.status = "success" <=> input[r][1].conclusion = Some("success")
        /\ b.status = "failure" =>
              \E k \in DOMAIN alerts :
                  /\ alerts[k].build = b.id
                  /\ alerts[k].pipeline = b.pipeline
                  /\ alerts[k].repo = b.repo

\* a cancelled run reported to the GitHub webhook and a run without a
\* conclusion reported to the Jenkins webhook are both stored as failure and
\* alerted
C33_Witness ==
    \E r \in Req, q \in Req :
        /\ endpoint[r] = "webhook_github" /\ endpoint[q] = "webhook_jenkins"
        /\ build[r] # 0 /\ build[q] # 0
        /\ input[r][1].conclusion = Some("cancelled")
        /\ input[q][1].conclusion = None
        /\ store[build[r]].status = "failure" /\ store[build[q]].status = "failure"
        /\ Len(alerts) = 2

\* the collector passes of one provider, and those whose POST was answered 2xx
Passes(ep) == {r \in Req : endpoint[r] = ep}
Succeeded(ep) == {r \in Passes(ep) : result[r].code \in 200..299}

\* C34: a collector forwards a run only if its provider result is terminal
\* (GitHub: success, failure, cancelled; Jenkins: SUCCESS, FAILURE, ABORTED):
\* any other run is skipped and leaves nothing; what is forwarded, and every
\* row a collector stored, has status success, failure or cancelled, never
\* in_progress; each collector's count is the number of its runs whose
\* submission succeeded.
C34_CollectorsForwardTerminalOnly ==
    /\ \A r \in Passes("collect_github") :
          LET c == input[r][1].conclusion IN
          IF c \in {Some("success"), Some("failure"), Some("cancelled")}
          THEN /\ pc[r] # "skipped"
               /\ map_conclusion_to_status(c) \in {"success", "failure", "cancelled"}
          ELSE pc[r] = "skipped" /\ NoTrace(r) /\ result[r] = NoResult
    /\ \A r \in Passes("collect_jenkins") :
          LET c == input[r][1].result IN
          IF c \in {Some("SUCCESS"), Some("FAILURE"), Some("ABORTED")}
          THEN /\ pc[r] # "skipped"
               /\ map_result_to_status(c) \in {"success", "failure", "cancelled"}
          ELSE pc[r] = "skipped" /\ NoTrace(r) /\ result[r] = NoResult
    /\ \A r \in Stored(CollectorEndpoints) :
          store[build[r]].status \in {"success", "failure", "cancelled"}
    /\ totals.github = Cardinality(Succeeded("collect_github"))
    /\ totals.jenkins = Cardinality(Succeeded("collect_jenkins"))

\* the GitHub collector stored a cancelled run and counts 1; the Jenkins
\* collector posted a build the backend failed to store and counts 0
C34_Witness ==
    \E r \in Req, q \in Req :
        /\ endpoint[r] = "collect_github" /\ endpoint[q] = "collect_jenkins"
        /\ build[r] # 0 /\ store[build[r]].status = "cancelled"
        /\ pc[q] = "raised" /\ result[q].code = 500
        /\ totals = [github |-> 1, jenkins |-> 0]

====
